---- MODULE Spec2Model ----
(***************************************************************************)
(* A model of scripts/inspect_potx.py: main() chooses an input file,       *)
(* optionally converts it with soffice into a temporary directory, and     *)
(* summarize_presentation() walks slides and shapes and prints a report.   *)
(*                                                                         *)
(* Strings are sequences of one-character strings.  A printed line is a    *)
(* record naming the f-string that produced it and the values substituted. *)
(* The document object graph of python-pptx is a value fixed before the    *)
(* run: every accessor the code reads has a recorded outcome (a value, an  *)
(* AttributeError shown as "absent"/"none", or another exception shown as  *)
(* "raise").                                                               *)
(***************************************************************************)
EXTENDS Integers, Sequences, FiniteSets, TLC

VARIABLES
    argFile,          \* args.file after parse_args (None when omitted)
    files,            \* paths that exist on disk (os.path.exists)
    soffice,          \* result of shutil.which('soffice') (None when absent)
    document,         \* what Presentation(path) yields, or Unreadable
    pc,               \* position of the run
    status,           \* "running", "unwinding", "returned", "usage_error", "exception"
    file_arg,         \* main(): file_arg
    converted_tmpdir, \* main(): converted_tmpdir
    converted_path,   \* main(): converted_path
    converter,        \* the soffice subprocess: "none", "running", "exited"
    returncode,       \* exit status of the soffice subprocess, -1 before it exits
    calls,            \* path arguments of the calls of summarize_presentation
    out,              \* lines printed to standard output
    i,                \* summarize_presentation: slide index
    si                \* summarize_presentation: shape index

vars == <<argFile, files, soffice, document, pc, status, file_arg,
          converted_tmpdir, converted_path, converter, returncode, calls, out, i, si>>

----------------------------------------------------------------------------
(* Bounds of the model *)

MaxSlides == 3
MaxShapes == 2
MaxNotes == 2
TextSlack == 2

----------------------------------------------------------------------------
(* Strings *)

None == <<>>

Min(a, b) == IF a < b THEN a ELSE b

Upper == [c \in {"p", "o", "t", "x", "d"} |->
            CASE c = "p" -> "P" [] c = "o" -> "O" [] c = "t" -> "T"
              [] c = "x" -> "X" [] c = "d" -> "D"]

\* str.lower() on one character
LowerChar(c) == IF \E l \in DOMAIN Upper : Upper[l] = c
                THEN CHOOSE l \in DOMAIN Upper : Upper[l] = c
                ELSE c

\* str.lower()
Lower(s) == [k \in 1..Len(s) |-> LowerChar(s[k])]

\* str.rfind(c) for a single character: 0 when absent (Python: -1)
RFind(s, c) == IF \E k \in 1..Len(s) : s[k] = c
               THEN CHOOSE k \in 1..Len(s) : s[k] = c /\ \A m \in (k+1)..Len(s) : s[m] # c
               ELSE 0

\* str.endswith
EndsWith(s, suffix) ==
    /\ Len(suffix) <= Len(s)
    /\ SubSeq(s, Len(s) - Len(suffix) + 1, Len(s)) = suffix

\* str.startswith
StartsWith(s, prefix) ==
    /\ Len(prefix) <= Len(s)
    /\ SubSeq(s, 1, Len(prefix)) = prefix

\* os.path.splitext(p)[1]: the part from the last dot of the last path
\* component, empty when that component has no dot after a non-dot character
SplitextExt(p) ==
    LET sepIndex == RFind(p, "/")
        dotIndex == RFind(p, ".")
    IN  IF dotIndex > sepIndex
           /\ \E k \in (sepIndex + 1)..(dotIndex - 1) : p[k] # "."
        THEN SubSeq(p, dotIndex, Len(p))
        ELSE <<>>

\* os.path.splitext(p)[0]
SplitextRoot(p) == SubSeq(p, 1, Len(p) - Len(SplitextExt(p)))

\* os.path.basename
Basename(p) == SubSeq(p, RFind(p, "/") + 1, Len(p))

\* os.path.join(a, b) for a relative b
Join(a, b) == a \o <<"/">> \o b

Whitespace == {" ", "\n", "\t"}

\* str.strip()
Strip(s) ==
    IF \A k \in 1..Len(s) : s[k] \in Whitespace
    THEN <<>>
    ELSE LET first == CHOOSE k \in 1..Len(s) :
                         s[k] \notin Whitespace /\ \A m \in 1..(k-1) : s[m] \in Whitespace
             last == CHOOSE k \in 1..Len(s) :
                         s[k] \notin Whitespace /\ \A m \in (k+1)..Len(s) : s[m] \in Whitespace
         IN  SubSeq(s, first, last)

\* str.replace('\n', ' ')
ReplaceNewlines(s) == [k \in 1..Len(s) |-> IF s[k] = "\n" THEN " " ELSE s[k]]

\* text.strip().replace('\n', ' ')
Clean(s) == ReplaceNewlines(Strip(s))

\* s[:n]
Take(s, n) == SubSeq(s, 1, Min(n, Len(s)))

SnippetLimit == 300
NotesLimit == 400
Ellipsis == <<".", ".", ".">>

\* Snippet cutting one character late
SnippetCutLate(txt) ==
    Take(txt, SnippetLimit + 1) \o (IF Len(txt) > SnippetLimit THEN Ellipsis ELSE <<>>)

\* txt[:300] + ("..." if len(txt) > 300 else "")
Snippet(txt) == Take(txt, SnippetLimit) \o (IF Len(txt) > SnippetLimit THEN Ellipsis ELSE <<>>)

NotesSep == <<" ", "|", " ">>

RECURSIVE JoinTexts(_)
\* ' | '.join(texts)
JoinTexts(texts) ==
    IF Len(texts) = 0 THEN <<>>
    ELSE IF Len(texts) = 1 THEN texts[1]
    ELSE texts[1] \o NotesSep \o JoinTexts(Tail(texts))

\* ' | '.join(notes_texts)[:400]
NotesJoin(texts) == Take(JoinTexts(texts), NotesLimit)

----------------------------------------------------------------------------
(* The document object graph read by summarize_presentation *)

\* shape.shape_type: a member of MSO_SHAPE_TYPE, or the accessor raises
ShapeTypes == {"PICTURE", "TEXT_BOX", "PLACEHOLDER", "raise"}

\* is_placeholder / placeholder_format.idx: not a placeholder, idx readable, idx raises
PlaceholderOutcomes == {"no", "ok", "raise"}

\* has_text_frame / text: no text frame, text readable, text raises
FrameOutcomes == {"none", "ok", "raise"}

\* shape.image: no such attribute, accessor raises another error,
\* image readable but blob raises, image and blob readable
ImageOutcomes == {"absent", "raise", "blobraise", "ok"}

\* slide.slide_layout: None, a named layout, or the accessor raises
LayoutOutcomes == {"none", "named", "raise"}

EmptyText == <<>>
BlankText == <<" ", "\n">>
PlainText == <<" ", "a", "\n", "b", " ">>
ShortTexts == {EmptyText, BlankText, PlainText}

MkShape(t, ph, fr, tx, im) ==
    [stype |-> t, ph |-> ph, frame |-> fr, text |-> tx, image |-> im]

\* every combination of accessor outcomes of one shape
AllShapes ==
    { MkShape(t, ph, "ok", tx, im) :
        t \in ShapeTypes, ph \in PlaceholderOutcomes, tx \in ShortTexts, im \in ImageOutcomes }
    \cup
    { MkShape(t, ph, fr, EmptyText, im) :
        t \in ShapeTypes, ph \in PlaceholderOutcomes, fr \in FrameOutcomes \ {"ok"},
        im \in ImageOutcomes }

\* a few typical shapes, for slides of several shapes
TypicalShapes ==
    { MkShape("TEXT_BOX", "no", "ok", PlainText, "absent"),
      MkShape("PLACEHOLDER", "ok", "ok", PlainText, "absent"),
      MkShape("PLACEHOLDER", "raise", "ok", BlankText, "absent"),
      MkShape("PICTURE", "no", "none", EmptyText, "ok"),
      MkShape("PICTURE", "no", "none", EmptyText, "blobraise"),
      MkShape("PLACEHOLDER", "ok", "none", EmptyText, "raise"),
      MkShape("raise", "no", "none", EmptyText, "absent"),
      MkShape("TEXT_BOX", "no", "raise", EmptyText, "absent") }

MkNote(fr, tx) == [frame |-> fr, text |-> tx]

MkNotes(err, shapes) == [err |-> err, shapes |-> shapes]

NoNotes == MkNotes(FALSE, <<>>)

MkPart(img, blobErr) == [image |-> img, blobErr |-> blobErr]

MkSlide(title, titleErr, layout, shapes, notes, related) ==
    [title |-> title, titleErr |-> titleErr, layout |-> layout,
     shapes |-> shapes, notes |-> notes, related |-> related]

SeqsUpTo(S, n) == UNION { [1..k -> S] : k \in 0..n }

\* slides of one shape, over every combination of that shape's outcomes
DetailSlides ==
    { MkSlide(title, titleErr, layout, <<sh>>, NoNotes, <<>>) :
        title \in 0..1, titleErr \in BOOLEAN, layout \in LayoutOutcomes, sh \in AllShapes }

\* slides of up to MaxShapes typical shapes
MultiShapeSlides ==
    UNION { { MkSlide(title, titleErr, "named", shapes, NoNotes, <<>>) :
                title \in 0..Len(shapes), titleErr \in BOOLEAN } :
            shapes \in SeqsUpTo(TypicalShapes, MaxShapes) }

\* a few typical slides, for documents of several slides
PlainSlides ==
    { MkSlide(1, FALSE, "named", <<MkShape("PLACEHOLDER", "ok", "ok", PlainText, "absent")>>,
              MkNotes(FALSE, <<MkNote("ok", PlainText)>>), <<MkPart(TRUE, FALSE)>>),
      MkSlide(0, FALSE, "none", <<>>, MkNotes(TRUE, <<>>), <<MkPart(FALSE, FALSE)>>),
      MkSlide(0, FALSE, "named", <<MkShape("PICTURE", "no", "none", EmptyText, "blobraise")>>,
              MkNotes(FALSE, <<MkNote("raise", EmptyText)>>), <<MkPart(TRUE, TRUE)>>),
      MkSlide(0, TRUE, "named", <<MkShape("raise", "no", "none", EmptyText, "absent")>>,
              NoNotes, <<>>),
      MkSlide(0, FALSE, "raise", <<>>, NoNotes, <<>>) }

MkDocument(slides) == [readable |-> TRUE, slides |-> slides]

\* Presentation(path) raises
Unreadable == [readable |-> FALSE, slides |-> <<>>]

PlainDocs == { MkDocument(slides) : slides \in SeqsUpTo(PlainSlides, MaxSlides) }

DetailDocs == { MkDocument(<<slide>>) : slide \in DetailSlides \cup MultiShapeSlides }

----------------------------------------------------------------------------
(* summarize_presentation: what one slide and one shape print *)

\* TitleText without strip()
TitleTextUnstripped(slide) ==
    IF slide.titleErr \/ slide.title = 0
    THEN None
    ELSE LET title_shape == slide.shapes[slide.title]
         IN  IF title_shape.frame = "ok" THEN ReplaceNewlines(title_shape.text) ELSE None

\* title_text of a slide: the cleaned text of the title shape, None when there
\* is no title shape, it has no text frame, or anything in the try block raises
TitleText(slide) ==
    IF slide.titleErr \/ slide.title = 0
    THEN None
    ELSE LET title_shape == slide.shapes[slide.title]
         IN  IF title_shape.frame = "ok" THEN Clean(title_shape.text) ELSE None

\* the "Title: ..." line, printed when title_text is truthy
TitleLines(slide) ==
    IF TitleText(slide) # <<>>
    THEN << [kind |-> "title", text |-> TitleText(slide)] >>
    ELSE << >>

\* the "Layout: ..." line, printed when the layout has a name
LayoutLines(slide) ==
    IF slide.layout = "named" THEN << [kind |-> "layout"] >> ELSE << >>

\* TitleMark testing only that the slide has a title shape
TitleMarkAnyShape(slide, n) ==
    IF ~slide.titleErr /\ slide.title # 0 THEN << [p |-> "TITLE"] >> ELSE << >>

\* shape == getattr(slide.shapes, 'title', None), inside try/except: the
\* marker part, nothing when the comparison is false or raises
TitleMark(slide, n) ==
    IF ~slide.titleErr /\ slide.title = n THEN << [p |-> "TITLE"] >> ELSE << >>

\* the placeholder part: printed when is_placeholder and idx can be read
PlaceholderPart(shape) ==
    IF shape.ph = "ok" THEN << [p |-> "placeholder"] >> ELSE << >>

\* the text part: the snippet of the cleaned text, when the shape has a text frame
TextPart(shape) ==
    IF shape.frame = "ok"
    THEN << [p |-> "text", snippet |-> Snippet(Clean(shape.text))] >>
    ELSE << >>

\* stype == MSO_SHAPE_TYPE.PICTURE or hasattr(shape, 'image'): "yes", "no", or
\* "raise" when hasattr lets an error other than AttributeError through
PictureTest(shape) ==
    IF shape.stype = "PICTURE" THEN "yes"
    ELSE IF shape.image = "absent" THEN "no"
    ELSE IF shape.image = "raise" THEN "raise"
    ELSE "yes"

\* the picture part: the descriptor, or the fallback when shape.image or
\* img.blob raises inside the try block
PicturePart(shape) ==
    IF shape.image = "ok"
    THEN << [p |-> "picture", desc |-> "descriptor"] >>
    ELSE << [p |-> "picture", desc |-> "(could not read image)"] >>

\* does the body of the shape loop raise for this shape
ShapeRaises(shape) ==
    \/ shape.stype = "raise"
    \/ shape.frame = "raise"
    \/ PictureTest(shape) = "raise"

\* info: the line printed for shape n of the slide
ShapeInfo(slide, n) ==
    LET shape == slide.shapes[n]
    IN  [kind |-> "shape", si |-> n, typename |-> shape.stype,
         parts |-> TitleMark(slide, n) \o PlaceholderPart(shape) \o TextPart(shape)
                   \o (IF PictureTest(shape) = "yes" THEN PicturePart(shape) ELSE << >>)]

RECURSIVE NotesTexts(_)
\* notes_texts: the non-empty cleaned texts of the note shapes with a text frame
NotesTexts(shapes) ==
    IF Len(shapes) = 0 THEN << >>
    ELSE LET nsh == Head(shapes)
             text == Clean(nsh.text)
         IN  (IF nsh.frame = "ok" /\ text # <<>> THEN <<text>> ELSE << >>)
             \o NotesTexts(Tail(shapes))

\* the "Notes: ..." line: nothing when notes_slide or a note's text raises
NotesLines(slide) ==
    IF slide.notes.err \/ \E k \in 1..Len(slide.notes.shapes) : slide.notes.shapes[k].frame = "raise"
    THEN << >>
    ELSE IF NotesTexts(slide.notes.shapes) # << >>
         THEN << [kind |-> "notes", text |-> NotesJoin(NotesTexts(slide.notes.shapes))] >>
         ELSE << >>

RECURSIVE ImageItems(_)
\* imgs: one entry per related part whose content type starts with image/
ImageItems(related) ==
    IF Len(related) = 0 THEN << >>
    ELSE (IF Head(related).image
          THEN << [kind |-> "image",
                   size |-> IF Head(related).blobErr THEN "unknown" ELSE "bytes"] >>
          ELSE << >>)
         \o ImageItems(Tail(related))

\* "Images in slide:" and its items, when there are any
ImagesLines(slide) ==
    IF ImageItems(slide.related) # << >>
    THEN << [kind |-> "images"] >> \o ImageItems(slide.related)
    ELSE << >>

BlankLine == [kind |-> "blank"]

----------------------------------------------------------------------------
(* main(): files, converter and temporary directory *)

Stem == <<"d", "i", "s", "c", "o", "-", "t", "e", "m", "p", "l", "a", "t", "e">>
DotPptx == <<".", "p", "p", "t", "x">>
DotPotx == <<".", "p", "o", "t", "x">>
DotOdp == <<".", "o", "d", "p">>

\* the default candidates, in the order they are tried
DefaultCandidates == << Stem \o DotPptx, Stem \o DotPotx, Stem \o DotOdp >>

\* paths given on the command line
ArgPaths ==
    { <<"a">> \o DotPptx,
      <<"a">> \o DotPotx,
      <<"d", "/", "b", ".", "O", "D", "P">>,
      <<"a", ".", "P", "o", "t", "X">>,
      DotPotx,
      <<"a", ".", "o", "d", "t">> }

\* where shutil.which finds the converter
SofficePath == <<"/", "b", "i", "n", "/", "s", "o", "f", "f", "i", "c", "e">>

\* the directory tempfile.mkdtemp(prefix='pptx_convert_') creates
TmpDir == <<"/", "t", "m", "p", "/", "p", "p", "t", "x", "_", "c", "o", "n", "v", "e", "r", "t", "_", "0">>

\* FirstExisting letting a later candidate overwrite an earlier one
LastExisting(exists) ==
    IF \E k \in 1..Len(DefaultCandidates) : DefaultCandidates[k] \in exists
    THEN DefaultCandidates[CHOOSE k \in 1..Len(DefaultCandidates) :
                              /\ DefaultCandidates[k] \in exists
                              /\ \A m \in (k+1)..Len(DefaultCandidates) :
                                    DefaultCandidates[m] \notin exists]
    ELSE None

\* the first default candidate that exists, None when there is none
FirstExisting(exists) ==
    IF \E k \in 1..Len(DefaultCandidates) : DefaultCandidates[k] \in exists
    THEN DefaultCandidates[CHOOSE k \in 1..Len(DefaultCandidates) :
                              /\ DefaultCandidates[k] \in exists
                              /\ \A m \in 1..(k-1) : DefaultCandidates[m] \notin exists]
    ELSE None

\* needs_convert and not file_arg.lower().endswith('.pptx')
NeedsConvert(path) ==
    /\ Lower(SplitextExt(path)) \in {DotPotx, DotOdp}
    /\ ~EndsWith(Lower(path), DotPptx)

\* candidate: where the converter is expected to leave the converted copy
Candidate(path, tmpdir) == Join(tmpdir, SplitextRoot(Basename(path)) \o DotPptx)

\* shutil.rmtree(tmpdir): the directory and everything below it
RmTree(exists, tmpdir) == { f \in exists : ~StartsWith(f, tmpdir) }

Msg(text) == [kind |-> "msg", text |-> text]

\* file_arg = args.file, or the first existing default; parser.error when none
ChooseFile ==
    /\ pc = "choose"
    /\ file_arg' = IF argFile # None THEN argFile ELSE FirstExisting(files)
    /\ IF file_arg' = None
       THEN pc' = "done" /\ status' = "usage_error"
       ELSE pc' = "convert" /\ status' = status
    /\ UNCHANGED <<argFile, files, soffice, document, converted_tmpdir, converted_path,
                   converter, returncode, calls, out, i, si>>

\* decide on conversion; look the converter up; make the temporary directory
PrepareConvert ==
    /\ pc = "convert"
    /\ converted_path' = file_arg
    /\ IF NeedsConvert(file_arg)
       THEN IF soffice # None
            THEN /\ converted_tmpdir' = TmpDir
                 /\ files' = files \cup {TmpDir}
                 /\ pc' = "spawn"
                 /\ out' = out
            ELSE /\ out' = Append(out, Msg("soffice not found"))
                 /\ pc' = "inspect"
                 /\ UNCHANGED <<converted_tmpdir, files>>
       ELSE /\ pc' = "inspect"
            /\ UNCHANGED <<converted_tmpdir, files, out>>
    /\ UNCHANGED <<argFile, soffice, document, status, file_arg, converter, returncode, calls, i, si>>

\* subprocess.run starts the converter; an error other than CalledProcessError
\* (the binary cannot be executed) leaves main() at once
SpawnConverter ==
    /\ pc = "spawn"
    /\ \E started \in BOOLEAN :
         IF started
         THEN converter' = "running" /\ pc' = "wait" /\ status' = status
         ELSE converter' = converter /\ pc' = "done" /\ status' = "exception"
    /\ UNCHANGED <<argFile, files, soffice, document, file_arg, converted_tmpdir,
                   converted_path, returncode, calls, out, i, si>>

\* WaitConverter without the except clause: CalledProcessError leaves main()
WaitConverterUncaught ==
    /\ pc = "wait"
    /\ \E rc \in 0..1, produced \in BOOLEAN :
         LET candidate == Join(converted_tmpdir, SplitextRoot(Basename(file_arg)) \o DotPptx)
         IN  /\ returncode' = rc
             /\ files' = IF produced THEN files \cup {candidate} ELSE files
             /\ IF rc # 0
                THEN /\ pc' = "done" /\ status' = "exception"
                     /\ UNCHANGED <<out, converted_path>>
                ELSE /\ pc' = "inspect" /\ status' = status
                     /\ IF candidate \in files'
                        THEN /\ converted_path' = candidate
                             /\ out' = Append(out, [kind |-> "converted", src |-> file_arg,
                                                    dst |-> candidate])
                        ELSE /\ out' = Append(out, [kind |-> "msg", text |-> "no pptx produced"])
                             /\ converted_path' = converted_path
    /\ converter' = "exited"
    /\ UNCHANGED <<argFile, soffice, document, file_arg, converted_tmpdir, calls, i, si>>

\* subprocess.run waits for the converter to exit; check=True raises
\* CalledProcessError on a non-zero status; otherwise look for the candidate
WaitConverter ==
    /\ pc = "wait"
    /\ \E rc \in 0..1, produced \in BOOLEAN :
         LET candidate == Candidate(file_arg, converted_tmpdir)
         IN  /\ returncode' = rc
             /\ files' = IF produced THEN files \cup {candidate} ELSE files
             /\ IF rc # 0
                THEN /\ out' = Append(out, Msg("conversion failed"))
                     /\ converted_path' = converted_path
                ELSE IF candidate \in files'
                     THEN /\ converted_path' = candidate
                          /\ out' = Append(out, [kind |-> "converted", src |-> file_arg,
                                                 dst |-> candidate])
                     ELSE /\ out' = Append(out, Msg("no pptx produced"))
                          /\ converted_path' = converted_path
    /\ converter' = "exited"
    /\ pc' = "inspect"
    /\ UNCHANGED <<argFile, soffice, document, status, file_arg, converted_tmpdir,
                   calls, i, si>>

\* finally: remove the temporary directory if one was made; rmtree errors are
\* swallowed; then main() returns or the pending exception leaves it
Finally ==
    /\ pc = "finally"
    /\ IF converted_tmpdir # None
       THEN \E removed \in BOOLEAN :
              files' = IF removed THEN RmTree(files, converted_tmpdir) ELSE files
       ELSE files' = files
    /\ pc' = "done"
    /\ status' = IF status = "unwinding" THEN "exception" ELSE "returned"
    /\ UNCHANGED <<argFile, soffice, document, file_arg, converted_tmpdir,
                   converted_path, converter, returncode, calls, out, i, si>>

----------------------------------------------------------------------------
(* summarize_presentation(converted_path) *)

\* CallSummarize passing file_arg instead of converted_path
CallSummarizeOriginal ==
    /\ pc = "inspect"
    /\ calls' = Append(calls, file_arg)
    /\ IF ~document.readable
       THEN /\ status' = "unwinding"
            /\ pc' = "finally"
            /\ UNCHANGED <<out, i>>
       ELSE /\ out' = out \o << [kind |-> "file", path |-> file_arg],
                               [kind |-> "count", n |-> Len(document.slides)],
                               [kind |-> "blank"] >>
            /\ status' = status
            /\ IF Len(document.slides) = 0
               THEN pc' = "finally" /\ i' = i
               ELSE pc' = "slide" /\ i' = 1
    /\ UNCHANGED <<argFile, files, soffice, document, file_arg, converted_tmpdir,
                   converted_path, converter, returncode, si>>

\* the call: open the document (a failure leaves the function), print the header
CallSummarize ==
    /\ pc = "inspect"
    /\ calls' = Append(calls, converted_path)
    /\ IF ~document.readable
       THEN /\ status' = "unwinding"
            /\ pc' = "finally"
            /\ UNCHANGED <<out, i>>
       ELSE /\ out' = out \o << [kind |-> "file", path |-> converted_path],
                               [kind |-> "count", n |-> Len(document.slides)],
                               BlankLine >>
            /\ status' = status
            /\ IF Len(document.slides) = 0
               THEN pc' = "finally" /\ i' = i
               ELSE pc' = "slide" /\ i' = 1
    /\ UNCHANGED <<argFile, files, soffice, document, file_arg, converted_tmpdir,
                   converted_path, converter, returncode, si>>

\* the slide header, the title line and the layout line of slide i
SlideHead ==
    /\ pc = "slide"
    /\ LET slide == document.slides[i]
       IN  IF slide.layout = "raise"
           THEN /\ out' = out \o << [kind |-> "slide", n |-> i] >> \o TitleLines(slide)
                /\ status' = "unwinding"
                /\ pc' = "finally"
                /\ si' = si
           ELSE /\ out' = out \o << [kind |-> "slide", n |-> i] >> \o TitleLines(slide)
                                \o LayoutLines(slide)
                /\ status' = status
                /\ IF Len(slide.shapes) = 0
                   THEN pc' = "notes" /\ si' = si
                   ELSE pc' = "shape" /\ si' = 1
    /\ UNCHANGED <<argFile, files, soffice, document, file_arg, converted_tmpdir,
                   converted_path, converter, returncode, calls, i>>

\* one pass of the shape loop: build and print the line of shape si
ShapeStep ==
    /\ pc = "shape"
    /\ LET slide == document.slides[i]
       IN  IF ShapeRaises(slide.shapes[si])
           THEN /\ status' = "unwinding"
                /\ pc' = "finally"
                /\ UNCHANGED <<out, si>>
           ELSE /\ out' = Append(out, ShapeInfo(slide, si))
                /\ status' = status
                /\ IF si < Len(slide.shapes)
                   THEN pc' = pc /\ si' = si + 1
                   ELSE pc' = "notes" /\ si' = si
    /\ UNCHANGED <<argFile, files, soffice, document, file_arg, converted_tmpdir,
                   converted_path, converter, returncode, calls, i>>

\* the notes of slide i
NotesStep ==
    /\ pc = "notes"
    /\ out' = out \o NotesLines(document.slides[i])
    /\ pc' = "images"
    /\ UNCHANGED <<argFile, files, soffice, document, status, file_arg, converted_tmpdir,
                   converted_path, converter, returncode, calls, i, si>>

\* the related image parts of slide i, the closing blank line, the next slide
ImagesStep ==
    /\ pc = "images"
    /\ out' = out \o ImagesLines(document.slides[i]) \o << BlankLine >>
    /\ IF i < Len(document.slides)
       THEN pc' = "slide" /\ i' = i + 1
       ELSE pc' = "finally" /\ i' = i
    /\ UNCHANGED <<argFile, files, soffice, document, status, file_arg, converted_tmpdir,
                   converted_path, converter, returncode, calls, si>>

----------------------------------------------------------------------------
(* Specifications *)

Fresh ==
    /\ pc = "choose"
    /\ status = "running"
    /\ file_arg = None
    /\ converted_tmpdir = None
    /\ converted_path = None
    /\ converter = "none"
    /\ returncode = -1
    /\ calls = << >>
    /\ out = << >>
    /\ i = 0
    /\ si = 0

\* any command line, any converter, documents of several plain slides
Init ==
    /\ argFile \in ArgPaths \cup {None}
    /\ files \in IF argFile = None
                 THEN SUBSET { DefaultCandidates[k] : k \in 1..Len(DefaultCandidates) }
                 ELSE { {} }
    /\ soffice \in {None, SofficePath}
    /\ document \in PlainDocs \cup {Unreadable}
    /\ Fresh

Next ==
    \/ ChooseFile
    \/ PrepareConvert
    \/ SpawnConverter
    \/ WaitConverter
    \/ CallSummarize
    \/ SlideHead
    \/ ShapeStep
    \/ NotesStep
    \/ ImagesStep
    \/ Finally

Spec == Init /\ [][Next]_vars

\* a .pptx file given on the command line, documents of every kind
InitDirect ==
    /\ argFile = <<"a">> \o DotPptx
    /\ files = {}
    /\ soffice \in {None, SofficePath}
    /\ document \in DetailDocs \cup PlainDocs \cup {Unreadable}
    /\ Fresh

NextDirect ==
    \/ ChooseFile
    \/ PrepareConvert
    \/ CallSummarize
    \/ SlideHead
    \/ ShapeStep
    \/ NotesStep
    \/ ImagesStep
    \/ Finally

SpecDirect == InitDirect /\ [][NextDirect]_vars

----------------------------------------------------------------------------
(* Documents with texts around the truncation limits *)

\* lead blanks, n letters with a line break as the second one, trail blanks
MakeText(lead, n, trail) ==
    [k \in 1..(lead + n + trail) |->
        IF k <= lead \/ k > lead + n THEN " "
        ELSE IF k = lead + 2 /\ n > 2 THEN "\n" ELSE "a"]

LongTexts ==
    { MakeText(lead, n, trail) :
        lead \in 0..1, trail \in 0..1,
        n \in (SnippetLimit - TextSlack)..(SnippetLimit + TextSlack) }

\* two of the first join to NotesLimit + 1 characters
NoteTexts ==
    { BlankText, MakeText(1, (NotesLimit - 2) \div 2, 0), MakeText(0, NotesLimit \div 2, 1),
      MakeText(0, NotesLimit + 1, 0) }

LongTextSlides ==
    { MkSlide(title, FALSE, "named",
              <<MkShape("TEXT_BOX", "no", "ok", tx, "absent")>>,
              MkNotes(FALSE, notes), <<>>) :
        title \in 0..1, tx \in LongTexts,
        notes \in SeqsUpTo({ MkNote("ok", t) : t \in NoteTexts }, MaxNotes) }

LongTextDocs == { MkDocument(<<slide>>) : slide \in LongTextSlides }

\* a .pptx file given on the command line, one slide with long texts
InitText ==
    /\ argFile = <<"a">> \o DotPptx
    /\ files = {}
    /\ soffice = None
    /\ document \in LongTextDocs
    /\ Fresh

SpecText == InitText /\ [][NextDirect]_vars

----------------------------------------------------------------------------
(* Reading the report *)

Slides == document.slides

\* the indices of the lines of one kind
LinesOf(kind) == { k \in 1..Len(out) : out[k].kind = kind }

\* the slide a line belongs to: the number of slide headers up to it
SlideOfLine(k) == Cardinality({ h \in LinesOf("slide") : h <= k })

\* the parts of one name in a shape line
PartsOf(line, name) == { q \in 1..Len(line.parts) : line.parts[q].p = name }

\* the shape a shape line was printed for
ShapeOfLine(k) == Slides[SlideOfLine(k)].shapes[out[k].si]

\* the extension of the chosen file calls for conversion
ConvertibleExt == file_arg # None /\ Lower(SplitextExt(file_arg)) \in {DotPotx, DotOdp}

\* the converted copy exists in the temporary directory
CopyExists == converted_tmpdir # None /\ Candidate(file_arg, converted_tmpdir) \in files

----------------------------------------------------------------------------
(* main(): temporary directory, fallback, default file, call of the inspector *)

\* C1: when main() has ended and a temporary conversion directory was created,
\* neither the directory nor anything below it is left on disk.
C1_TmpDirRemovedOnExit ==
    (pc = "done" /\ converted_tmpdir # None)
        => \A f \in files : ~StartsWith(f, converted_tmpdir)

\* C4: for a chosen file with extension .potx or .odp, when the converter is
\* absent, exits non-zero, or exits zero leaving no converted copy, the matching
\* warning is the first line printed and summarize_presentation is called with
\* the original path; and no run in which the converter was absent or has exited
\* ends without that call.
C4_FallbackToOriginal ==
    ConvertibleExt =>
        /\ (pc = "done" /\ (soffice = None \/ returncode # -1)) => Len(calls) = 1
        /\ (calls # << >> /\ pc # "done")
             => /\ soffice = None
                    => /\ calls = <<file_arg>>
                       /\ out[1].kind = "msg" /\ out[1].text = "soffice not found"
                /\ (soffice # None /\ returncode = 1)
                    => /\ calls = <<file_arg>>
                       /\ out[1].kind = "msg" /\ out[1].text = "conversion failed"
                /\ (soffice # None /\ returncode = 0 /\ ~CopyExists)
                    => /\ calls = <<file_arg>>
                       /\ out[1].kind = "msg" /\ out[1].text = "no pptx produced"

\* the converter exited non-zero on an upper-case .ODP file and the original is being inspected
C4_Witness ==
    /\ file_arg = <<"d", "/", "b", ".", "O", "D", "P">>
    /\ returncode = 1
    /\ pc = "slide"
    /\ calls = <<file_arg>>

\* C5: with no path argument the chosen file is the first of disco-template.pptx,
\* .potx, .odp that exists; when none exists the run ends with a usage error,
\* having printed nothing, started no converter and never called
\* summarize_presentation.
C5_DefaultFileOrUsageError ==
    (argFile = None /\ pc # "choose") =>
        LET pptx == Stem \o DotPptx
            potx == Stem \o DotPotx
            odp == Stem \o DotOdp
        IN  /\ pptx \in files => file_arg = pptx
            /\ (pptx \notin files /\ potx \in files) => file_arg = potx
            /\ (pptx \notin files /\ potx \notin files /\ odp \in files) => file_arg = odp
            /\ (pptx \notin files /\ potx \notin files /\ odp \notin files)
                 => /\ pc = "done" /\ status = "usage_error"
                    /\ calls = << >> /\ out = << >>
                    /\ converter = "none" /\ converted_tmpdir = None

\* no argument, no default file: the run has ended with the usage error
C5_Witness ==
    /\ argFile = None
    /\ files = {}
    /\ pc = "done"
    /\ status = "usage_error"

\* C10: summarize_presentation is called at most once, exactly once in every run
\* that got to inspection, never while the converter is running; its argument is
\* the converted copy exactly when the extension is .potx/.odp, the converter was
\* found, exited 0 and the copy exists, and the chosen file otherwise; for another
\* extension no converter is started and no temporary directory is made.
C10_OneCallWithTheRightPath ==
    /\ Len(calls) <= 1
    /\ (pc \in {"slide", "shape", "notes", "images", "finally"} \/ status = "returned")
         => Len(calls) = 1
    /\ calls # << >> => converter # "running"
    /\ (calls # << >> /\ pc # "done")
         => calls[1] = IF ConvertibleExt /\ soffice # None /\ returncode = 0 /\ CopyExists
                       THEN Candidate(file_arg, converted_tmpdir)
                       ELSE file_arg
    /\ (pc \notin {"choose", "convert"} /\ file_arg # None /\ ~ConvertibleExt)
         => /\ converter = "none" /\ returncode = -1
            /\ converted_tmpdir = None
            /\ \A f \in files : ~StartsWith(f, TmpDir)

\* the converted copy of d/b.ODP is being inspected
C10_Witness ==
    /\ file_arg = <<"d", "/", "b", ".", "O", "D", "P">>
    /\ calls = << TmpDir \o <<"/", "b">> \o DotPptx >>
    /\ converter = "exited"
    /\ pc = "finally"

----------------------------------------------------------------------------
(* summarize_presentation: shapes, sections, titles, pictures, truncation *)

\* C2: every pass of the shape loop prints the line of its shape and goes on to
\* the next shape or to the notes; no failure of an accessor of the shape leaves
\* the loop.
C2_NoShapeFailurePropagates ==
    [][pc = "shape" =>
          /\ status' = "running"
          /\ Len(out') = Len(out) + 1
          /\ out'[Len(out')].kind = "shape"
          /\ out'[Len(out')].si = si
          /\ pc' \in {"shape", "notes"}]_vars

\* C3: when the run has ended on a document that opened, the report has one
\* slide header per slide of the document, numbered 1..N in that order, and the
\* printed slide count is N.
C3_OneSectionPerSlide ==
    (pc = "done" /\ calls # << >> /\ document.readable) =>
        /\ Cardinality(LinesOf("slide")) = Len(Slides)
        /\ \A h \in LinesOf("slide") : out[h].n = SlideOfLine(h)
        /\ \E c \in LinesOf("count") : out[c].n = Len(Slides)

\* C7 as stated: a printed shape line carries the [TITLE] marker exactly when
\* its shape is the title shape of its slide.
C7_TitleShapeAlwaysMarked ==
    \A k \in LinesOf("shape") :
        (PartsOf(out[k], "TITLE") # {}) <=> (Slides[SlideOfLine(k)].title = out[k].si)

\* C7 as amended: a printed shape line carries the [TITLE] marker exactly when
\* its shape is the title shape of its slide and looking the title shape up did
\* not raise; a shape that is not the title shape never carries it.
C7_TitleMarkedWhenLookupSucceeds ==
    \A k \in LinesOf("shape") :
        LET slide == Slides[SlideOfLine(k)]
        IN  /\ (PartsOf(out[k], "TITLE") # {})
                  <=> (slide.title = out[k].si /\ ~slide.titleErr)
            /\ Cardinality(PartsOf(out[k], "TITLE")) <= 1

\* the second of two shapes is the title shape: its line is marked, the first is not
C7_Witness ==
    \E k \in LinesOf("shape") :
        /\ out[k].si = 2
        /\ Slides[SlideOfLine(k)].title = 2
        /\ PartsOf(out[k], "TITLE") # {}
        /\ PartsOf(out[k - 1], "TITLE") = {}

\* the slide has a title shape whose text can be read and is not all whitespace
HasTitleText(slide) ==
    /\ slide.title # 0
    /\ ~slide.titleErr
    /\ slide.shapes[slide.title].frame = "ok"
    /\ \E j \in 1..Len(slide.shapes[slide.title].text) :
          slide.shapes[slide.title].text[j] \notin Whitespace

\* C8: the section of a slide has a "Title:" line exactly when the slide has a
\* title shape with a text frame whose text is readable and not empty after
\* trimming; without one (no title shape, empty or blank text, failing
\* extraction) the header is followed directly by what comes after the title
\* step, so the step raised nothing.
C8_TitleLineIffTitleText ==
    \A h \in LinesOf("slide") :
        LET slide == Slides[SlideOfLine(h)]
            titles == { k \in LinesOf("title") : SlideOfLine(k) = SlideOfLine(h) }
        IN  /\ (titles # {}) <=> HasTitleText(slide)
            /\ titles \subseteq {h + 1}
            /\ (~HasTitleText(slide) /\ slide.layout = "named")
                 => (h < Len(out) /\ out[h + 1].kind = "layout")

\* a slide whose title shape holds only whitespace was summarized without a title line
C8_Witness ==
    /\ pc = "done"
    /\ status = "returned"
    /\ Len(Slides) = 1
    /\ Slides[1].title = 1
    /\ ~Slides[1].titleErr
    /\ Slides[1].shapes[1].frame = "ok"
    /\ Slides[1].shapes[1].text = BlankText
    /\ LinesOf("title") = {}

\* C9: a pass of the shape loop over a shape whose type tag and text can be read
\* and that is a PICTURE or has an image accessor prints a line with exactly one
\* picture part: the descriptor when image and blob can be read, the fallback
\* otherwise; nothing is raised.
C9_PictureAlwaysDescribed ==
    [][LET shape == Slides[i].shapes[si]
           line == out'[Len(out')]
       IN  (/\ pc = "shape"
            /\ shape.stype # "raise"
            /\ shape.frame # "raise"
            /\ (shape.stype = "PICTURE" \/ shape.image # "absent"))
           => /\ status' = "running"
              /\ Len(out') = Len(out) + 1
              /\ line.kind = "shape"
              /\ Cardinality(PartsOf(line, "picture")) = 1
              /\ \A q \in PartsOf(line, "picture") :
                    line.parts[q].desc = IF shape.image = "ok" THEN "descriptor"
                                         ELSE "(could not read image)"]_vars

\* C6: the snippet of every shape line is the cleaned text when that has at most
\* 300 characters, and its first 300 characters followed by "..." otherwise, so
\* never more than 303 characters; the text of every notes line has at most 400.
C6_SnippetAndNotesBounded ==
    /\ \A k \in LinesOf("shape") : \A q \in PartsOf(out[k], "text") :
          LET txt == ReplaceNewlines(Strip(ShapeOfLine(k).text))
              snippet == out[k].parts[q].snippet
          IN  /\ Len(snippet) <= 303
              /\ Len(txt) <= 300 => snippet = txt
              /\ Len(txt) > 300
                   => /\ Len(snippet) = 303
                      /\ SubSeq(snippet, 1, 300) = SubSeq(txt, 1, 300)
                      /\ SubSeq(snippet, 301, 303) = <<".", ".", ".">>
    /\ \A k \in LinesOf("notes") : Len(out[k].text) <= 400

\* a shape text of more than 300 characters was cut to 303 and notes joining to
\* more than 400 characters were cut to 400
C6_Witness ==
    /\ \E k \in LinesOf("shape") : \E q \in PartsOf(out[k], "text") :
          /\ Len(Strip(ShapeOfLine(k).text)) > 300
          /\ Len(out[k].parts[q].snippet) = 303
    /\ \E k \in LinesOf("notes") :
          /\ Len(JoinTexts(NotesTexts(Slides[SlideOfLine(k)].notes.shapes))) > 400
          /\ Len(out[k].text) = 400

====
